---- MODULE Spec2Model ----
(***************************************************************************)
(* A model of the two routines of pysimm that carry its coordination       *)
(* logic:                                                                  *)
(*   - pysimm.apps.mc_md.mc_md, the iterative Monte-Carlo / Molecular-     *)
(*     Dynamics coupling loop (restart scan, input validation, type        *)
(*     renaming, MC phase, MD job construction, MD phase, hand-off);       *)
(*   - pysimm.amber.get_forcefield_types, the atom-type resolver.          *)
(* The external engines (Cassandra, LAMMPS, antechamber) are black boxes:  *)
(* an invocation either succeeds, with a nondeterministic result, or       *)
(* fails, and a failure propagates out of mc_md as an exception.           *)
(* mc_md.py is read with the meaning its own idiom has: types.ListType is  *)
(* the list type.                                                          *)
(***************************************************************************)
EXTENDS Integers, Sequences, FiniteSets, TLC

(* ---------------------------------------------------------------------- *)
(* Bounds of the model                                                      *)
(* ---------------------------------------------------------------------- *)
MaxIter == 2
MaxIns == 1
MaxStages == 2
MaxAtoms == 3

(* ---------------------------------------------------------------------- *)
(* Names: a name is a sequence of characters, so that appending a suffix   *)
(* is real string concatenation.                                           *)
(* ---------------------------------------------------------------------- *)
Digit(d) ==
  CASE d = 0 -> "0" [] d = 1 -> "1" [] d = 2 -> "2" [] d = 3 -> "3"
    [] d = 4 -> "4" [] d = 5 -> "5" [] d = 6 -> "6" [] d = 7 -> "7"
    [] d = 8 -> "8" [] OTHER -> "9"

RECURSIVE Str(_)
Str(n) ==
  IF n < 10 THEN <<Digit(n)>> ELSE Str(n \div 10) \o <<Digit(n % 10)>>

(* '_g' + str(gi + 1), gi the 0-based position given by enumerate(gases) *)
GasSuffix(gi) == <<"_", "g">> \o Str(gi + 1)

NameC == <<"C">>
NameO == <<"O">>
NameCg1 == <<"C", "_", "g", "1">>
NameCg2 == <<"C", "_", "g", "2">>

(* ---------------------------------------------------------------------- *)
(* Arguments of mc_md                                                       *)
(* ---------------------------------------------------------------------- *)
(* A structural system is represented by the names of its particle types;  *)
(* an item of a gas list is either a System or some other object.          *)
Sys(ts) == [isSystem |-> TRUE, types |-> ts]
Junk == [isSystem |-> FALSE, types |-> <<>>]

GasNone == [kind |-> "none", items |-> <<>>]
GasSingle(g) == [kind |-> "system", items |-> <<g>>]
GasList(gs) == [kind |-> "list", items |-> gs]

FixedNone == [kind |-> "none", types |-> <<>>]
FixedOther == [kind |-> "other", types |-> <<>>]
FixedSys(ts) == [kind |-> "system", types |-> ts]

(* mc_props: None, an empty dict, or a dict that may hold                  *)
(* 'Chemical_Potential_Info' and 'rigid_type'.                             *)
McNone == [kind |-> "none", hasChem |-> FALSE, chem |-> <<>>, hasRigid |-> FALSE, rigid |-> <<>>]
McEmpty == [kind |-> "empty", hasChem |-> FALSE, chem |-> <<>>, hasRigid |-> FALSE, rigid |-> <<>>]
McDict(hc, c, hr, r) == [kind |-> "dict", hasChem |-> hc, chem |-> c, hasRigid |-> hr, rigid |-> r]

(* md_props: None, an empty dict, or a dict whose 'timestep' and 'length'  *)
(* are scalars (staged = FALSE, one-element sequences here) or lists.      *)
MdNone == [kind |-> "none", staged |-> FALSE, timestep |-> <<>>, length |-> <<>>]
MdEmpty == [kind |-> "empty", staged |-> FALSE, timestep |-> <<>>, length |-> <<>>]
MdScalar(t, n) == [kind |-> "dict", staged |-> FALSE, timestep |-> <<t>>, length |-> <<n>>]
MdStaged(ts, ns) == [kind |-> "dict", staged |-> TRUE, timestep |-> ts, length |-> ns]

SeqsUpTo(S, n) == UNION {[1..k -> S] : k \in 0..n}

Min(a, b) == IF a < b THEN a ELSE b


(* ---------------------------------------------------------------------- *)
(* mc_md: setting up the inputs (lines 56-103)                             *)
(* ---------------------------------------------------------------------- *)
(* lines 65-73: the one-molecule gas systems; items that are not Systems   *)
(* are dropped, None and the empty list give no gases.                     *)
SetGases(g) ==
  IF g.kind = "none" THEN <<>>
  ELSE IF g.kind = "system" THEN g.items
  ELSE SelectSeq(g.items, LAMBDA x : x.isSystem)

(* cassandra.make_iterable applied to mcp.get('Chemical_Potential_Info'):  *)
(* a sequence of chemical potentials, empty when there is none.            *)
make_iterable(has, val) == IF has THEN val ELSE <<>>

(* a validation that forgets the Molecular-Dynamics settings *)
ConfigErrorNoMd(g, mcp, mdp) ==
  IF SetGases(g) = <<>> THEN "no_gases"
  ELSE IF mcp.kind # "dict" THEN "no_mc_props"
  ELSE IF make_iterable(mcp.hasChem, mcp.chem) = <<>> THEN "no_chem_pot"
  ELSE "ok"

(* lines 75-98: the three fatal configuration checks, in the code's order. *)
ConfigError(g, mcp, mdp) ==
  IF SetGases(g) = <<>> THEN "no_gases"
  ELSE IF mcp.kind # "dict" THEN "no_mc_props"
  ELSE IF make_iterable(mcp.hasChem, mcp.chem) = <<>> THEN "no_chem_pot"
  ELSE IF mdp.kind # "dict" THEN "no_md_props"
  ELSE "ok"

(* line 91: mcp['Start_Type'] = {'species': [1] + [0] * len(CHEM_POT)}     *)
NoFile == 0
InitStartType(chem) ==
  [species |-> <<1>> \o [k \in 1..Len(chem) |-> 0], file_name |-> NoFile]

(* a renaming that numbers the species from 2 *)
RenameTypesShifted(gs) ==
  [gi \in 1..Len(gs) |->
     [gs[gi] EXCEPT !.types = [k \in 1..Len(@) |-> @[k] \o GasSuffix(gi)]]]

(* lines 101-103: pt.name += '_g' + str(gi + 1) for every type of gas gi   *)
RenameTypes(gs) ==
  [gi \in 1..Len(gs) |->
     [gs[gi] EXCEPT !.types = [k \in 1..Len(@) |-> @[k] \o GasSuffix(gi - 1)]]]

(* line 110: mcp.get('rigid_type') or [False] * len(gases)                 *)
IsRigid(mcp, gs) ==
  IF mcp.hasRigid /\ mcp.rigid # <<>> THEN mcp.rigid
  ELSE [k \in 1..Len(gs) |-> FALSE]

(* ---------------------------------------------------------------------- *)
(* mc_md: the restart scan (lines 46-55)                                   *)
(* ---------------------------------------------------------------------- *)
(* A file of sim_folder is <<iteration index, rest of the name>>.          *)
LmpsKind == "before_md.lmps"
XyzKind == "md_out.xyz"
LogKind == "md.log"
DumpKind == "md.dump"
PropsKind == "gcmc_props.inp"
ChkKind == "gcmc.chk"
FileKinds == {LmpsKind, XyzKind, LogKind, DumpKind, PropsKind, ChkKind}
(* the names the pattern '<l>.md*' matches *)
MdStar == {XyzKind, LogKind, DumpKind}

SetMax(S) == CHOOSE m \in S : \A x \in S : x <= m
SetMin(S) == CHOOSE m \in S : \A x \in S : m <= x

(* a scan that resumes after the last pre-MD file instead of at it *)
ScanIndexNext(rst, fs) ==
  IF rst THEN SetMax({1} \cup {f[1] : f \in {h \in fs : h[2] = LmpsKind}}) + 1
  ELSE 1

(* lines 46-50 *)
ScanIndex(rst, fs) ==
  IF rst THEN SetMax({1} \cup {f[1] : f \in {h \in fs : h[2] = LmpsKind}})
  ELSE 1

(* a purge that takes every file of the resumed iteration *)
ToPurgeAll(rst, fs) ==
  IF rst
  THEN {f \in fs : f[1] = ScanIndex(rst, fs) + 1}
       \cup {f \in fs : f[1] = ScanIndex(rst, fs)}
  ELSE {}

(* lines 52-53 *)
ToPurge(rst, fs) ==
  IF rst
  THEN {f \in fs : f[1] = ScanIndex(rst, fs) + 1}
       \cup {f \in fs : f[1] = ScanIndex(rst, fs) /\ f[2] \in MdStar}
  ELSE {}

(* ---------------------------------------------------------------------- *)
(* mc_md: the MD job (lines 137-220), a sequence of commands               *)
(* ---------------------------------------------------------------------- *)
NoIdx == -1
Cmd(op, name, idx, group, ens, ts, len) ==
  [op |-> op, name |-> name, idx |-> idx, group |-> group, ens |-> ens,
   ts |-> ts, len |-> len]

nonrig_group_name == "nonrigid_b"
rig_group_name == "rigid_b"
RigidEns == "rigid/nvt/small molecule"

(* a job head that never defines the rigid group *)
JobHeadNoRigid(rigid) ==
  << Cmd("init", "", NoIdx, "", "", NoIdx, <<>>),
     Cmd("custom", "neighbor", NoIdx, "", "", NoIdx, <<>>),
     Cmd("group", "matrix", NoIdx, "", "", NoIdx, <<>>),
     Cmd("group", nonrig_group_name, NoIdx, "", "", NoIdx, <<>>) >>

(* lines 137-152: Init, neighbour settings and the group definitions *)
JobHead(rigid) ==
  << Cmd("init", "", NoIdx, "", "", NoIdx, <<>>),
     Cmd("custom", "neighbor", NoIdx, "", "", NoIdx, <<>>),
     Cmd("group", "matrix", NoIdx, "", "", NoIdx, <<>>),
     Cmd("group", nonrig_group_name, NoIdx, "", "", NoIdx, <<>>) >>
  \o (IF rigid # {} THEN <<Cmd("group", rig_group_name, NoIdx, "", "", NoIdx, <<>>)>>
      ELSE <<>>)

OutputSettings(l0) == Cmd("output", "dump", l0, "", "", NoIdx, <<>>)

(* a stage that leaves its tether fix defined *)
StageKeepTether(it, t, lng, mdp, rigid) ==
  <<Cmd("velocity", "create", NoIdx, "", "", NoIdx, <<>>)>>
  \o (IF rigid # {}
      THEN << Cmd("run", "", NoIdx, "", "", NoIdx, <<0>>),
              Cmd("velocity", "scale", NoIdx, "", "", NoIdx, <<>>),
              Cmd("fix", "rig_fix", it, rig_group_name, RigidEns, t, mdp.length) >>
      ELSE <<>>)
  \o << Cmd("fix", "main_fix", it, IF rigid # {} THEN nonrig_group_name ELSE "all",
            "npt", t, <<>>),
        Cmd("fix", "tether_fix", it, "matrix", "spring tether", NoIdx, <<>>),
        Cmd("run", "", NoIdx, "", "", NoIdx, <<lng>>),
        Cmd("unfix", "main_fix", it, "", "", NoIdx, <<>>),
        Cmd("unfix", "rig_fix", it, "", "", NoIdx, <<>>) >>

(* lines 163-193: the body of the loop over zip(timestep, length), for the *)
(* 0-based stage number it                                                 *)
Stage(it, t, lng, mdp, rigid) ==
  <<Cmd("velocity", "create", NoIdx, "", "", NoIdx, <<>>)>>
  \o (IF rigid # {}
      THEN << Cmd("run", "", NoIdx, "", "", NoIdx, <<0>>),
              Cmd("velocity", "scale", NoIdx, "", "", NoIdx, <<>>) >>
      ELSE <<>>)
  \o (IF rigid # {}
      THEN <<Cmd("fix", "rig_fix", it, rig_group_name, RigidEns, t, mdp.length)>>
      ELSE <<>>)
  \o << Cmd("fix", "main_fix", it, IF rigid # {} THEN nonrig_group_name ELSE "all",
            "npt", t, <<>>),
        Cmd("fix", "tether_fix", it, "matrix", "spring tether", NoIdx, <<>>),
        Cmd("run", "", NoIdx, "", "", NoIdx, <<lng>>),
        Cmd("unfix", "main_fix", it, "", "", NoIdx, <<>>),
        Cmd("unfix", "rig_fix", it, "", "", NoIdx, <<>>),
        Cmd("unfix", "tether_fix", it, "", "", NoIdx, <<>>) >>

(* line 161: enumerate(zip(timestep, length)) stops at the shorter list *)
RECURSIVE StagesFrom(_, _, _)
StagesFrom(it, mdp, rigid) ==
  IF it >= Min(Len(mdp.timestep), Len(mdp.length)) THEN <<>>
  ELSE Stage(it, mdp.timestep[it + 1], mdp.length[it + 1], mdp, rigid)
       \o StagesFrom(it + 1, mdp, rigid)

(* lines 196-220: the single-stage job body *)
SingleStage(l0, mdp, rigid) ==
  (IF rigid # {}
   THEN <<Cmd("fix", "rig_fix", NoIdx, rig_group_name, RigidEns, mdp.timestep[1], mdp.length)>>
   ELSE <<>>)
  \o << Cmd("fix", "main_fix", NoIdx, IF rigid # {} THEN nonrig_group_name ELSE "all",
            "npt", mdp.timestep[1], <<>>),
        Cmd("fix", "tether_fix", NoIdx, "matrix", "spring tether", NoIdx, <<>>),
        OutputSettings(l0),
        Cmd("run", "", NoIdx, "", "", NoIdx, mdp.length) >>

(* lines 137-220 *)
MdJob(l0, mdp, rigid) ==
  JobHead(rigid)
  \o (IF mdp.staged
      THEN <<OutputSettings(l0)>> \o StagesFrom(0, mdp, rigid)
      ELSE SingleStage(l0, mdp, rigid))

(* cassandra's GCMC.group_by_id('rigid')[0]: the particles of the rigid    *)
(* molecules present in the system; here the species that are flagged      *)
(* rigid and have at least one molecule inserted.                          *)
GroupByIdRigid(job, ins) ==
  {k \in 1..Min(Len(job.is_rigid), Len(ins)) : job.is_rigid[k] /\ ins[k] > 0}


(* ---------------------------------------------------------------------- *)
(* get_forcefield_types (amber.py, lines 96-156)                           *)
(* ---------------------------------------------------------------------- *)
(* A type registry (ItemContainer) is the sequence of the names of its     *)
(* records; get(name) gives the records of that name, add appends one.     *)
(* A fallback force field is None or the set of the names it holds.        *)
NoForcefield == [present |-> FALSE, names |-> {}]
Forcefield(ns) == [present |-> TRUE, names |-> ns]

(* f.particle_types.get(type_name), line 132: a list of names *)
FGet(f, name) == IF name \in f.names THEN <<name>> ELSE <<>>

(* s.particle_types.get(type_name), line 129: the positions of the records *)
SGet(reg, name) == {k \in DOMAIN reg : reg[k] = name}

(* the state the loop over the ATOM lines works on *)
ResolverStart(reg, n) ==
  [ s_particle_types |-> reg,
    particle_type |-> [t \in 1..n |-> 0],
    c5_c6_flag |-> FALSE,
    warning_pdb_flag |-> FALSE,
    missing_types |-> {},
    warnings |-> <<>>,
    pdb_writes |-> 0,
    errors |-> <<>> ]

(* lines 133-136: the warning about a type the fallback does not hold *)
AfterMissing(st, name, f) ==
  IF FGet(f, name) = <<>> /\ name \notin st.missing_types
  THEN [st EXCEPT !.warnings = Append(@, <<"not_found", name>>),
                  !.missing_types = @ \cup {name}]
  ELSE st

(* line 138 *)
IsAlias(scheme, name) == scheme = "gaff2" /\ name \in {"c5", "c6"}

(* lines 138-150: the alias substitution, or else the snapshot of a       *)
(* system with a missing type; pt is what line 152 then tests             *)
AfterAlias(st, name, scheme, f) ==
  IF IsAlias(scheme, name)
  THEN IF ~st.c5_c6_flag
       THEN [st |-> [st EXCEPT !.warnings = Append(@, <<"alias", name>>),
                               !.c5_c6_flag = TRUE],
             pt |-> FGet(f, "c3")]
       ELSE [st |-> st, pt |-> FGet(f, name)]
  ELSE IF FGet(f, name) = <<>>
       THEN [st |-> [st EXCEPT
                       !.warnings = IF ~st.warning_pdb_flag
                                    THEN Append(@, <<"pdb", name>>) ELSE @,
                       !.warning_pdb_flag = TRUE,
                       !.pdb_writes = @ + 1],
             pt |-> <<>>]
       ELSE [st |-> st, pt |-> FGet(f, name)]

(* lines 152-153: clone the record into the registry and bind the particle *)
AfterBind(r, tag) ==
  IF r.pt # <<>>
  THEN [r.st EXCEPT !.s_particle_types = Append(@, r.pt[1]),
                    !.particle_type[tag] = Len(r.st.s_particle_types) + 1]
  ELSE r.st

(* pysimm's error_print: the message is reported and the caller goes on   *)
error_print(errs, name) == Append(errs, name)

(* a resolver that is silent about a type it cannot find *)
ResolveLineSilent(st, tag, name, scheme, f) ==
  IF SGet(st.s_particle_types, name) # {}
  THEN [st EXCEPT !.particle_type[tag] = SetMin(SGet(st.s_particle_types, name))]
  ELSE IF f.present
       THEN AfterBind(AfterAlias(AfterMissing(st, name, f), name, scheme, f), tag)
       ELSE st

(* lines 126-155: one ATOM line, giving particle tag the type type_name *)
ResolveLine(st, tag, name, scheme, f) ==
  IF SGet(st.s_particle_types, name) # {}
  THEN [st EXCEPT !.particle_type[tag] = SetMin(SGet(st.s_particle_types, name))]
  ELSE IF f.present
       THEN AfterBind(AfterAlias(AfterMissing(st, name, f), name, scheme, f), tag)
       ELSE [st EXCEPT !.errors = error_print(@, name)]

VARIABLES
  ff_pc,        \* "idle", "lines" (in the loop of line 125) or "done"
  ff_types,     \* the argument types: the naming scheme
  ff_f,         \* the argument f: the fallback force field
  ff_reg0,      \* the type registry of s when the call began
  ff_lines,     \* the type names antechamber reported, for tags 1, 2, ...
  ff_next,      \* the next ATOM line to read
  ff_st         \* the loop's state, see ResolverStart

ffVars == << ff_pc, ff_types, ff_f, ff_reg0, ff_lines, ff_next, ff_st >>

FfIdle ==
  /\ ff_pc = "idle" /\ ff_types = "gaff" /\ ff_f = NoForcefield
  /\ ff_reg0 = <<>> /\ ff_lines = <<>> /\ ff_next = 1
  /\ ff_st = ResolverStart(<<>>, 0)

(* ---------------------------------------------------------------------- *)
(* State                                                                    *)
(* ---------------------------------------------------------------------- *)
VARIABLES
  pc,           \* position of the running call of mc_md ("idle": no call)
  gas_sst, fixed_sst, mc_props, md_props, n_iter,   \* the call's arguments
  is_restart,   \* line 47, cleared at line 124
  l,            \* the iteration counter
  files,        \* the files of sim_folder
  to_purge,     \* line 52: the files still to delete
  gases,        \* line 66
  CHEM_POT,     \* line 84
  start_type,   \* mcp['Start_Type']
  run_queue,    \* css.run_queue
  made_ins,     \* css.run_queue[-1].mc_sst.made_ins
  css_system,   \* css.system: <<"none" | "mc" | "chk" | "md", iteration>>
  os_environ,   \* os.environ['OMP_NUM_THREADS'], or "unset"
  nm_treads,    \* line 129
  rigid_mols,   \* line 150
  sim,          \* the MD job of lmps.Simulation (<<>>: sim is None)
  sim_system,   \* sim.system
  retval,       \* what the call returned
  exit_code,    \* the status of exit(), 0 while none
  written,      \* history: the files this call has written
  removed,      \* history: the files this call has deleted
  launches,     \* history: the engine invocations of this call, in order
  jobs,         \* history: the Monte-Carlo jobs this call constructed
  env_before,   \* history: OMP_NUM_THREADS before the current MD phase
  md_phases,    \* history: outcome of each MD phase of this call
  restart,      \* history: the restart argument of this call
  files0        \* history: the files of sim_folder when the call began

mcVars ==
  << pc, gas_sst, fixed_sst, mc_props, md_props, n_iter, is_restart, l, files,
     to_purge, gases, CHEM_POT, start_type, run_queue, made_ins, css_system, os_environ,
     nm_treads, rigid_mols, sim, sim_system, retval, exit_code, written,
     removed, launches, jobs, env_before, md_phases, restart, files0 >>

NoSystem == <<"none", 0>>

(* the state of a process that has not called mc_md; sim_folder is apart *)
IdleState ==
  /\ pc = "idle"
  /\ gas_sst = GasNone /\ fixed_sst = FixedNone
  /\ mc_props = McNone /\ md_props = MdNone /\ n_iter = 0
  /\ is_restart = FALSE /\ l = 1 /\ to_purge = {}
  /\ gases = <<>> /\ CHEM_POT = <<>> /\ start_type = InitStartType(<<>>)
  /\ run_queue = <<>> /\ made_ins = <<>> /\ css_system = NoSystem
  /\ os_environ = "unset" /\ nm_treads = "1" /\ rigid_mols = {}
  /\ sim = <<>> /\ sim_system = NoSystem /\ retval = NoSystem /\ exit_code = 0
  /\ written = {} /\ removed = {} /\ launches = <<>> /\ jobs = <<>>
  /\ env_before = "unset" /\ md_phases = <<>>
  /\ restart = FALSE /\ files0 = {}

(* the process is gone: every variable but files is as in IdleState *)
McIdle ==
  /\ pc' = "idle"
  /\ gas_sst' = GasNone /\ fixed_sst' = FixedNone
  /\ mc_props' = McNone /\ md_props' = MdNone /\ n_iter' = 0
  /\ is_restart' = FALSE /\ l' = 1 /\ to_purge' = {}
  /\ gases' = <<>> /\ CHEM_POT' = <<>> /\ start_type' = InitStartType(<<>>)
  /\ run_queue' = <<>> /\ made_ins' = <<>> /\ css_system' = NoSystem
  /\ os_environ' = "unset" /\ nm_treads' = "1" /\ rigid_mols' = {}
  /\ sim' = <<>> /\ sim_system' = NoSystem /\ retval' = NoSystem /\ exit_code' = 0
  /\ written' = {} /\ removed' = {} /\ launches' = <<>> /\ jobs' = <<>>
  /\ env_before' = "unset" /\ md_phases' = <<>>
  /\ restart' = FALSE /\ files0' = {}

McInit == IdleState /\ files = {} /\ FfIdle

(* ---------------------------------------------------------------------- *)
(* mc_md, step by step                                                      *)
(* ---------------------------------------------------------------------- *)
(* A call of mc_md(gas_sst, fixed_sst, mc_props, md_props, mcmd_niter=n,   *)
(* restart=r) in a process whose OMP_NUM_THREADS is e; lines 38-47.        *)
Call(g, f, mcp, mdp, n, r, e) ==
  /\ pc = "idle"
  /\ pc' = "scan"
  /\ gas_sst' = g /\ fixed_sst' = f /\ mc_props' = mcp /\ md_props' = mdp
  /\ n_iter' = n /\ is_restart' = r /\ l' = 1
  /\ os_environ' = e /\ env_before' = e
  /\ restart' = r /\ files0' = files
  /\ UNCHANGED << ffVars, to_purge, files, gases, CHEM_POT, start_type, run_queue, made_ins,
                  css_system, nm_treads, rigid_mols, sim, sim_system, retval,
                  exit_code, written, removed, launches, jobs, md_phases >>

(* lines 48-53: find the resume index and list the files to delete *)
Scan ==
  /\ pc = "scan"
  /\ l' = ScanIndex(is_restart, files)
  /\ to_purge' = ToPurge(is_restart, files)
  /\ pc' = IF to_purge' = {} THEN "setup" ELSE "purge"
  /\ UNCHANGED << ffVars, restart, files0, gas_sst, fixed_sst, mc_props, md_props, n_iter, is_restart,
                  files, gases, CHEM_POT, start_type, run_queue, made_ins,
                  css_system, os_environ, nm_treads, rigid_mols, sim, sim_system,
                  retval, exit_code, written, removed, launches, jobs,
                  env_before, md_phases >>

(* the listing order of line 52: the files of l + 1 before those of l *)
PurgeNext(tp, l0) ==
  IF \E f \in tp : f[1] = l0 + 1 THEN {f \in tp : f[1] = l0 + 1} ELSE tp

(* lines 54-55: os.remove, one file at a time *)
Purge ==
  /\ pc = "purge"
  /\ \E f \in PurgeNext(to_purge, l) :
       /\ files' = files \ {f}
       /\ removed' = removed \cup {f}
       /\ to_purge' = to_purge \ {f}
  /\ pc' = IF to_purge' = {} THEN "setup" ELSE "purge"
  /\ UNCHANGED << ffVars, restart, files0, gas_sst, fixed_sst, mc_props, md_props, n_iter, is_restart, l,
                  gases, CHEM_POT, start_type, run_queue, made_ins, css_system,
                  os_environ, nm_treads, rigid_mols, sim, sim_system, retval,
                  exit_code, written, launches, jobs, env_before, md_phases >>

(* lines 56-98: build the inputs; a missing one ends the process, exit(1) *)
Setup ==
  /\ pc = "setup"
  /\ gases' = SetGases(gas_sst)
  /\ IF ConfigError(gas_sst, mc_props, md_props) = "ok"
     THEN /\ CHEM_POT' = make_iterable(mc_props.hasChem, mc_props.chem)
          /\ start_type' = InitStartType(CHEM_POT')
          /\ pc' = "rename"
          /\ UNCHANGED exit_code
     ELSE /\ pc' = "abort"
          /\ exit_code' = 1
          /\ UNCHANGED << restart, files0, to_purge, CHEM_POT, start_type >>
  /\ UNCHANGED << ffVars, restart, files0, to_purge, gas_sst, fixed_sst, mc_props, md_props, n_iter, is_restart, l,
                  files, run_queue, made_ins, css_system, os_environ, nm_treads,
                  rigid_mols, sim, sim_system, retval, written, removed,
                  launches, jobs, env_before, md_phases >>

(* lines 100-103 *)
Rename ==
  /\ pc = "rename"
  /\ gases' = RenameTypes(gases)
  /\ pc' = "loop"
  /\ UNCHANGED << ffVars, restart, files0, to_purge, gas_sst, fixed_sst, mc_props, md_props, n_iter, is_restart, l,
                  files, CHEM_POT, start_type, run_queue, made_ins, css_system,
                  os_environ, nm_treads, rigid_mols, sim, sim_system, retval,
                  exit_code, written, removed, launches, jobs, env_before,
                  md_phases >>

(* a loop bound that stops one iteration early *)
LoopCondShort(l0, n) == l0 < n

(* line 105: while l < n_iter + 1 *)
LoopCond(l0, n) == l0 < n + 1

LoopEnter ==
  /\ pc = "loop"
  /\ LoopCond(l, n_iter)
  /\ pc' = "mc_build"
  /\ UNCHANGED << ffVars, restart, files0, to_purge, gas_sst, fixed_sst, mc_props, md_props, n_iter, is_restart, l,
                  files, gases, CHEM_POT, start_type, run_queue, made_ins,
                  css_system, os_environ, nm_treads, rigid_mols, sim, sim_system,
                  retval, exit_code, written, removed, launches, jobs,
                  env_before, md_phases >>

(* a return that never hands a system back *)
ReturnNothing(s, ss) == NoSystem

(* line 243: return sim.system if sim else None *)
ReturnValue(s, ss) == IF s # <<>> THEN ss ELSE NoSystem

LoopExit ==
  /\ pc = "loop"
  /\ ~LoopCond(l, n_iter)
  /\ retval' = ReturnValue(sim, sim_system)
  /\ pc' = "done"
  /\ UNCHANGED << ffVars, restart, files0, to_purge, gas_sst, fixed_sst, mc_props, md_props, n_iter, is_restart, l,
                  files, gases, CHEM_POT, start_type, run_queue, made_ins,
                  css_system, os_environ, nm_treads, rigid_mols, sim, sim_system,
                  exit_code, written, removed, launches, jobs, env_before,
                  md_phases >>

(* lines 107-111: the Monte-Carlo job of iteration l0 *)
GcmcJob(l0, gs, chem, mcp, st) ==
  [ run_name |-> l0, props_file |-> l0, species |-> gs, chem_pot |-> chem,
    is_rigid |-> IsRigid(mcp, gs), start_type |-> st ]

(* css.add_gcmc(..., is_new=True): the job replaces the queue *)
McBuild ==
  /\ pc = "mc_build"
  /\ run_queue' = <<GcmcJob(l, gases, CHEM_POT, mc_props, start_type)>>
  /\ jobs' = Append(jobs, run_queue'[1])
  /\ pc' = "mc_phase"
  /\ UNCHANGED << ffVars, restart, files0, to_purge, gas_sst, fixed_sst, mc_props, md_props, n_iter, is_restart, l,
                  files, gases, CHEM_POT, start_type, made_ins, css_system,
                  os_environ, nm_treads, rigid_mols, sim, sim_system, retval,
                  exit_code, written, removed, launches, env_before, md_phases >>

InsSets(gs) == [1..Len(gs) -> 0..MaxIns]

(* lines 113-124: the resumed iteration reads its state back; reading a    *)
(* checkpoint that does not exist raises                                   *)
McResync ==
  /\ pc = "mc_phase"
  /\ is_restart
  /\ IF <<l, ChkKind>> \in files /\ <<l, LmpsKind>> \in files
     THEN /\ \E ins \in InsSets(gases) : made_ins' = ins
          /\ css_system' = <<"chk", l>>
          /\ is_restart' = FALSE
          /\ pc' = "md_build"
     ELSE /\ pc' = "crashed"
          /\ UNCHANGED << restart, files0, to_purge, made_ins, css_system, is_restart >>
  /\ UNCHANGED << ffVars, restart, files0, to_purge, gas_sst, fixed_sst, mc_props, md_props, n_iter, l, files,
                  gases, CHEM_POT, start_type, run_queue, os_environ, nm_treads,
                  rigid_mols, sim, sim_system, retval, exit_code, written,
                  removed, launches, jobs, env_before, md_phases >>

(* lines 126-127: css.run() and the pre-MD file *)
McFiles(l0) == {<<l0, PropsKind>>, <<l0, ChkKind>>, <<l0, LmpsKind>>}

McRun ==
  /\ pc = "mc_phase"
  /\ ~is_restart
  /\ launches' = Append(launches, <<"MC", l>>)
  /\ \E ins \in InsSets(gases) : made_ins' = ins
  /\ css_system' = <<"mc", l>>
  /\ files' = files \cup McFiles(l)
  /\ written' = written \cup McFiles(l)
  /\ pc' = "md_build"
  /\ UNCHANGED << ffVars, restart, files0, to_purge, gas_sst, fixed_sst, mc_props, md_props, n_iter, is_restart, l,
                  gases, CHEM_POT, start_type, run_queue, os_environ, nm_treads,
                  rigid_mols, sim, sim_system, retval, exit_code, removed, jobs,
                  env_before, md_phases >>

(* css.run() fails: the failure leaves mc_md as an exception *)
McFail ==
  /\ pc = "mc_phase"
  /\ ~is_restart
  /\ launches' = Append(launches, <<"MC", l>>)
  /\ files' = files \cup {<<l, PropsKind>>}
  /\ written' = written \cup {<<l, PropsKind>>}
  /\ pc' = "crashed"
  /\ UNCHANGED << ffVars, restart, files0, to_purge, gas_sst, fixed_sst, mc_props, md_props, n_iter, is_restart, l,
                  gases, CHEM_POT, start_type, run_queue, made_ins, css_system,
                  os_environ, nm_treads, rigid_mols, sim, sim_system, retval,
                  exit_code, removed, jobs, env_before, md_phases >>

(* lines 129-131: the value to put back after the MD phase *)
SavedThreads(env) == IF env # "unset" THEN env ELSE "1"

(* lines 129-220: override the thread count, write the pre-MD file and     *)
(* build the MD job                                                        *)
MdBuild ==
  /\ pc = "md_build"
  /\ nm_treads' = SavedThreads(os_environ)
  /\ env_before' = os_environ
  /\ os_environ' = "1"
  /\ files' = files \cup {<<l, LmpsKind>>}
  /\ written' = written \cup {<<l, LmpsKind>>}
  /\ rigid_mols' = GroupByIdRigid(run_queue[1], made_ins)
  /\ sim' = MdJob(l, md_props, rigid_mols')
  /\ sim_system' = css_system
  /\ pc' = "md_run"
  /\ UNCHANGED << ffVars, restart, files0, to_purge, gas_sst, fixed_sst, mc_props, md_props, n_iter, is_restart, l,
                  gases, CHEM_POT, start_type, run_queue, made_ins, css_system,
                  retval, exit_code, removed, launches, jobs, md_phases >>

(* lines 223-230: sim.run(); LAMMPS writes the log and the dump *)
MdRun ==
  /\ pc = "md_run"
  /\ launches' = Append(launches, <<"MD", l>>)
  /\ files' = files \cup {<<l, LogKind>>, <<l, DumpKind>>}
  /\ written' = written \cup {<<l, LogKind>>, <<l, DumpKind>>}
  /\ sim_system' = <<"md", l>>
  /\ pc' = "md_post"
  /\ UNCHANGED << ffVars, restart, files0, to_purge, gas_sst, fixed_sst, mc_props, md_props, n_iter, is_restart, l,
                  gases, CHEM_POT, start_type, run_queue, made_ins, css_system,
                  os_environ, nm_treads, rigid_mols, sim, retval, exit_code,
                  removed, jobs, env_before, md_phases >>

(* sim.run() fails: the failure leaves mc_md as an exception *)
MdFail ==
  /\ pc = "md_run"
  /\ launches' = Append(launches, <<"MD", l>>)
  /\ files' = files \cup {<<l, LogKind>>}
  /\ written' = written \cup {<<l, LogKind>>}
  /\ md_phases' = Append(md_phases, "failed")
  /\ pc' = "crashed"
  /\ UNCHANGED << ffVars, restart, files0, to_purge, gas_sst, fixed_sst, mc_props, md_props, n_iter, is_restart, l,
                  gases, CHEM_POT, start_type, run_queue, made_ins, css_system,
                  os_environ, nm_treads, rigid_mols, sim, sim_system, retval,
                  exit_code, removed, jobs, env_before >>

(* lines 239-240 *)
NextStartType(l0, ins) == [species |-> <<1>> \o ins, file_name |-> l0]

(* a post-MD file named after the next iteration *)
PostMdFileNext(l0) == <<l0 + 1, XyzKind>>

(* line 237: xyz_fname.format(l) *)
PostMdFile(l0) == <<l0, XyzKind>>

(* a counter that skips an iteration *)
NextIterSkip(l0) == l0 + 2

(* line 241: l += 1 *)
NextIter(l0) == l0 + 1

(* lines 231-241: put the thread count back, take over the MD system,      *)
(* write the post-MD file and hand the composition to the next iteration   *)
MdPost ==
  /\ pc = "md_post"
  /\ os_environ' = nm_treads
  /\ css_system' = sim_system
  /\ files' = files \cup {PostMdFile(l)}
  /\ written' = written \cup {PostMdFile(l)}
  /\ start_type' = NextStartType(l, made_ins)
  /\ l' = NextIter(l)
  /\ md_phases' = Append(md_phases, "ok")
  /\ pc' = "loop"
  /\ UNCHANGED << ffVars, restart, files0, to_purge, gas_sst, fixed_sst, mc_props, md_props, n_iter, is_restart,
                  gases, CHEM_POT, run_queue, made_ins, nm_treads, rigid_mols,
                  sim, sim_system, retval, exit_code, removed, launches, jobs,
                  env_before >>

(* The process ends: after the return, the exit or the exception, or       *)
(* because the operator kills it. Only sim_folder outlives it.             *)
Running == pc \notin {"idle", "done", "abort", "crashed"}

Ended ==
  /\ pc \in {"done", "abort", "crashed"}
  /\ McIdle
  /\ UNCHANGED << files, ffVars >>

Kill ==
  /\ Running
  /\ McIdle
  /\ UNCHANGED << files, ffVars >>

(* ---------------------------------------------------------------------- *)
(* The calls the model makes                                                *)
(* ---------------------------------------------------------------------- *)
Gas1 == Sys(<<NameC>>)
Gas2 == Sys(<<NameC, NameO>>)
GasArgs == {GasNone, GasSingle(Gas1), GasList(<<Gas1, Gas2>>)}
McArgs ==
  { McNone,
    McDict(FALSE, <<>>, FALSE, <<>>),
    McDict(TRUE, <<>>, FALSE, <<>>),
    McDict(TRUE, <<5, 6>>, FALSE, <<>>),
    McDict(TRUE, <<5, 6>>, TRUE, <<FALSE, FALSE>>),
    McDict(TRUE, <<5, 6>>, TRUE, <<TRUE, FALSE>>) }
MdArgs == {MdNone, MdScalar(1, 10), MdStaged(<<1, 2>>, <<10, 20>>)}
EnvArgs == {"unset", "4"}

CallAny ==
  /\ pc = "idle"
  /\ \E g \in GasArgs, mcp \in McArgs, mdp \in MdArgs, n \in 0..MaxIter,
        r \in BOOLEAN, e \in EnvArgs :
       Call(g, FixedNone, mcp, mdp, n, r, e)

Init == McInit

Next ==
  \/ CallAny
  \/ Scan
  \/ Purge
  \/ Setup
  \/ Rename
  \/ LoopEnter
  \/ LoopExit
  \/ McBuild
  \/ McResync
  \/ McRun
  \/ McFail
  \/ MdBuild
  \/ MdRun
  \/ MdFail
  \/ MdPost
  \/ Ended
  \/ Kill

vars == << mcVars, ffVars >>

Spec == Init /\ [][Next]_vars


(* ---------------------------------------------------------------------- *)
(* One call after another, without restart, over a wide range of inputs    *)
(* ---------------------------------------------------------------------- *)
MaxGases == 2
TypeNames == {NameC, NameO, NameCg1, NameCg2}
GasSystems == {Sys(<<a>>) : a \in TypeNames} \cup {Gas2}
GasItems == GasSystems \cup {Junk}
GasArgsWide ==
  {GasNone} \cup {GasSingle(g) : g \in GasSystems}
  \cup {GasList(q) : q \in SeqsUpTo(GasItems, MaxGases)}
FixedArgsWide == {FixedNone, FixedOther} \cup {FixedSys(<<a>>) : a \in TypeNames}
McArgsWide ==
  { McNone, McEmpty,
    McDict(FALSE, <<>>, FALSE, <<>>),
    McDict(FALSE, <<>>, TRUE, <<FALSE, FALSE>>),
    McDict(TRUE, <<>>, FALSE, <<>>),
    McDict(TRUE, <<5, 6>>, FALSE, <<>>) }
MdArgsWide == {MdNone, MdEmpty, MdScalar(1, 10)}

CallWide ==
  /\ pc = "idle"
  /\ \E g \in GasArgsWide, f \in FixedArgsWide, mcp \in McArgsWide,
        mdp \in MdArgsWide, n \in 0..1 :
       Call(g, f, mcp, mdp, n, FALSE, "4")

NextInputs ==
  \/ CallWide
  \/ Scan
  \/ Setup
  \/ Rename
  \/ LoopEnter
  \/ LoopExit
  \/ McBuild
  \/ McRun
  \/ MdBuild
  \/ MdRun
  \/ MdPost
  \/ Ended

SpecInputs == Init /\ [][NextInputs]_vars

(* ---------------------------------------------------------------------- *)
(* The MD phase of the first iteration of a fresh call, over a wide range  *)
(* of MD settings                                                          *)
(* ---------------------------------------------------------------------- *)
Timesteps == {1, 2}
Lengths == {10, 20}
MdArgsJob ==
  {MdScalar(t, n) : t \in Timesteps, n \in Lengths}
  \cup {MdStaged(q[1], q[2]) :
          q \in SeqsUpTo(Timesteps, MaxStages) \X SeqsUpTo(Lengths, MaxStages)}
RigidArgs == {<<FALSE, FALSE>>, <<TRUE, FALSE>>, <<FALSE, TRUE>>}

(* the state mc_md is in after the Monte-Carlo phase of iteration 1 *)
JobInit ==
  \E mdp \in MdArgsJob, rg \in RigidArgs, ins \in InsSets(<<Gas1, Gas2>>) :
    /\ pc = "md_build"
    /\ gas_sst = GasList(<<Gas1, Gas2>>) /\ fixed_sst = FixedNone
    /\ mc_props = McDict(TRUE, <<5, 6>>, TRUE, rg) /\ md_props = mdp
    /\ n_iter = 1 /\ is_restart = FALSE /\ l = 1
    /\ files = McFiles(1) /\ to_purge = {}
    /\ gases = RenameTypes(<<Gas1, Gas2>>) /\ CHEM_POT = <<5, 6>>
    /\ start_type = InitStartType(<<5, 6>>)
    /\ run_queue = <<GcmcJob(1, gases, CHEM_POT, mc_props, start_type)>>
    /\ made_ins = ins /\ css_system = <<"mc", 1>>
    /\ os_environ = "4" /\ nm_treads = "1" /\ rigid_mols = {}
    /\ sim = <<>> /\ sim_system = NoSystem /\ retval = NoSystem /\ exit_code = 0
    /\ written = McFiles(1) /\ removed = {} /\ launches = << <<"MC", 1>> >>
    /\ jobs = run_queue /\ env_before = "4" /\ md_phases = <<>>
    /\ restart = FALSE /\ files0 = {}
    /\ FfIdle

NextJob == MdBuild

SpecJob == JobInit /\ [][NextJob]_vars

(* ---------------------------------------------------------------------- *)
(* get_forcefield_types, one ATOM line after another                       *)
(* ---------------------------------------------------------------------- *)
AtomTypeNames == {"c3", "c5", "c6", "hx"}
Schemes == {"gaff", "gaff2"}
Fallbacks == {NoForcefield} \cup {Forcefield(ns) : ns \in SUBSET AtomTypeNames}
Registries == {<<>>, <<"c3">>, <<"hx">>, <<"c3", "hx">>}

(* the state after lines 109-123: antechamber has reported the types *)
FfInit ==
  /\ IdleState /\ files = {}
  /\ \E sch \in Schemes, f \in Fallbacks, reg \in Registries,
        ls \in SeqsUpTo(AtomTypeNames, MaxAtoms) :
       /\ ff_pc = IF ls = <<>> THEN "done" ELSE "lines"
       /\ ff_types = sch /\ ff_f = f /\ ff_reg0 = reg /\ ff_lines = ls
       /\ ff_next = 1
       /\ ff_st = ResolverStart(reg, Len(ls))

(* lines 125-156: the body of the while loop, for the line ff_next *)
ReadLine ==
  /\ ff_pc = "lines"
  /\ ff_st' = ResolveLine(ff_st, ff_next, ff_lines[ff_next], ff_types, ff_f)
  /\ ff_next' = ff_next + 1
  /\ ff_pc' = IF ff_next' > Len(ff_lines) THEN "done" ELSE "lines"
  /\ UNCHANGED << ff_types, ff_f, ff_reg0, ff_lines, mcVars >>

NextFF == ReadLine

SpecFF == FfInit /\ [][NextFF]_vars

(* ---------------------------------------------------------------------- *)
(* A call with restart on a directory of any content, up to the first      *)
(* Monte-Carlo job                                                         *)
(* ---------------------------------------------------------------------- *)
MaxIdx == 3
ScanKinds == {LmpsKind, XyzKind, LogKind, PropsKind}
ScanDirs == SUBSET ((1..MaxIdx) \X ScanKinds)

(* the state after lines 38-47 of mc_md(..., mcmd_niter=n, restart=True) *)
ScanInit ==
  \E fs \in ScanDirs, n \in 1..MaxIter :
    /\ pc = "scan"
    /\ gas_sst = GasSingle(Gas1) /\ fixed_sst = FixedNone
    /\ mc_props = McDict(TRUE, <<5>>, FALSE, <<>>) /\ md_props = MdScalar(1, 10)
    /\ n_iter = n /\ is_restart = TRUE /\ l = 1
    /\ files = fs /\ to_purge = {}
    /\ gases = <<>> /\ CHEM_POT = <<>> /\ start_type = InitStartType(<<>>)
    /\ run_queue = <<>> /\ made_ins = <<>> /\ css_system = NoSystem
    /\ os_environ = "4" /\ nm_treads = "1" /\ rigid_mols = {}
    /\ sim = <<>> /\ sim_system = NoSystem /\ retval = NoSystem /\ exit_code = 0
    /\ written = {} /\ removed = {} /\ launches = <<>> /\ jobs = <<>>
    /\ env_before = "4" /\ md_phases = <<>>
    /\ restart = TRUE /\ files0 = fs
    /\ FfIdle

NextScan ==
  \/ Scan
  \/ Purge
  \/ Setup
  \/ Rename
  \/ LoopEnter
  \/ LoopExit
  \/ McBuild

SpecScan == ScanInit /\ [][NextScan]_vars

(* ---------------------------------------------------------------------- *)
(* Properties of mc_md                                                      *)
(* ---------------------------------------------------------------------- *)
Range(q) == {q[i] : i \in DOMAIN q}

(* MC(a), MD(a), MC(a+1), MD(a+1), ..., MC(b), MD(b) *)
Alternation(a, b) ==
  [k \in 1..2 * (b - a + 1) |->
     <<IF k % 2 = 1 THEN "MC" ELSE "MD", a + ((k - 1) \div 2)>>]

IsPrefix(p, q) == Len(p) <= Len(q) /\ \A i \in 1..Len(p) : p[i] = q[i]

(* C1: a call without restart, with N = mcmd_niter >= 1, that returns has  *)
(* run MC and MD for 1, 2, ..., N in this order, has written exactly the   *)
(* files <i>.before_md.lmps, <i>.md_out.xyz, <i>.md.log, <i>.md.dump and   *)
(* the Monte-Carlo files of each i in 1..N (run name <i>.gcmc, props file  *)
(* <i>.gcmc_props.inp) and no file of another index, and returns the       *)
(* system of the MD phase of iteration N.                                  *)
C1_FreshRun ==
  (pc = "done" /\ ~restart /\ n_iter >= 1) =>
    /\ launches = Alternation(1, n_iter)
    /\ written = (1..n_iter) \X FileKinds
    /\ Len(jobs) = n_iter
    /\ \A i \in 1..n_iter : jobs[i].run_name = i /\ jobs[i].props_file = i
    /\ \E c \in Range(sim) : c.op = "output" /\ c.idx = n_iter
    /\ retval = <<"md", n_iter>>

C1_Witness ==
  /\ pc = "done" /\ ~restart /\ n_iter = 2
  /\ retval = <<"md", 2>>
  /\ <<2, XyzKind>> \in written

(* iterations 1..k are complete in fs and nothing of a later one exists *)
CompleteUpTo(fs, k) ==
  /\ \A i \in 1..k : \A kind \in FileKinds : <<i, kind>> \in fs
  /\ \A f \in fs : f[1] <= k

(* C2: a call with restart on a directory in which iterations 1..k are     *)
(* complete, k < mcmd_niter, builds its first Monte-Carlo job for          *)
(* iteration k, never launches the Monte-Carlo engine for k (the state is  *)
(* read back from checkpoint k), launches MD(k) first and then MC(k+1),    *)
(* MD(k+1), ... in this order.                                             *)
C2_RestartResumes ==
  \A k \in 1..MaxIter :
    ( /\ restart /\ pc \notin {"idle", "scan", "purge", "setup"}
      /\ CompleteUpTo(files0, k) /\ k < n_iter /\ pc # "abort" ) =>
      /\ l >= k
      /\ jobs # <<>> => jobs[1].run_name = k
      /\ <<"MC", k>> \notin Range(launches)
      /\ IsPrefix(launches, Tail(Alternation(k, n_iter)))
      /\ (l = k /\ pc \in {"md_build", "md_run"}) => css_system = <<"chk", k>>
      /\ Len(launches) >= 2 => launches[2] = <<"MC", k + 1>>
      /\ pc = "done" => launches = Tail(Alternation(k, n_iter))

C2_Witness ==
  /\ restart /\ pc = "done" /\ CompleteUpTo(files0, 1) /\ n_iter = 2
  /\ launches = << <<"MD", 1>>, <<"MC", 2>>, <<"MD", 2>> >>

(* C4: OMP_NUM_THREADS is '1' while the MD engine runs, and once an MD     *)
(* phase has ended, normally or by a failure of the engine, it has the     *)
(* value it had before that phase.                                         *)
C4_EnvIsolation ==
  /\ pc = "md_run" => os_environ = "1"
  /\ (md_phases # <<>> /\ pc \notin {"md_run", "md_post", "idle"})
       => os_environ = env_before


InLoop == pc \in {"loop", "mc_build", "mc_phase", "md_build", "md_run", "md_post", "done"}

(* C7: once the loop is reached, and whenever a Monte-Carlo job exists,    *)
(* every particle type of the gas at position gi carries its original name *)
(* followed by exactly one suffix '_g<gi>'; no job is built before that,   *)
(* and every job built, at any iteration and after a restart, was given    *)
(* these same names.                                                       *)
C7_RenamedOnceFirst ==
  /\ pc \in {"scan", "purge", "setup", "rename"} => jobs = <<>>
  /\ (InLoop \/ jobs # <<>>) =>
       /\ Len(gases) = Len(SetGases(gas_sst))
       /\ \A gi \in 1..Len(gases) :
            /\ Len(gases[gi].types) = Len(SetGases(gas_sst)[gi].types)
            /\ \A k \in 1..Len(gases[gi].types) :
                 gases[gi].types[k]
                   = SetGases(gas_sst)[gi].types[k] \o <<"_", "g", Digit(gi)>>
       /\ \A j \in 1..Len(jobs) : jobs[j].species = gases

C7_Witness ==
  /\ pc = "done" /\ Len(jobs) = 2 /\ Len(gases) = 2
  /\ gases[2].types = << <<"C", "_", "g", "2">>, <<"O", "_", "g", "2">> >>

GroupNames(job) == {c.name : c \in {d \in Range(job) : d.op = "group"}}
HasRigidStep(job) ==
  \E c \in Range(job) : c.op = "fix" /\ c.ens = RigidEns /\ c.group = rig_group_name
NoRigidStep(job) == \A c \in Range(job) : c.op = "fix" => c.ens # RigidEns

(* some species of the gas list is flagged rigid in mc_props['rigid_type'] *)
FlaggedRigid ==
  /\ mc_props.hasRigid
  /\ \E k \in DOMAIN mc_props.rigid : k <= Len(gases) /\ mc_props.rigid[k]

(* some molecule of a species flagged rigid is in the system *)
RigidPresent ==
  /\ mc_props.hasRigid
  /\ \E k \in DOMAIN mc_props.rigid :
       k <= Len(made_ins) /\ mc_props.rigid[k] /\ made_ins[k] > 0

ThreeGroups == {"matrix", nonrig_group_name, rig_group_name}
TwoGroups == {"matrix", nonrig_group_name}

(* C9 as stated: the MD job has the three groups and a rigid-body step     *)
(* when a species is flagged rigid, and the two groups and no rigid-body   *)
(* step when none is.                                                      *)
C9_ByFlag ==
  pc \in {"md_run", "md_post"} =>
    /\ FlaggedRigid => (GroupNames(sim) = ThreeGroups /\ HasRigidStep(sim))
    /\ ~FlaggedRigid => (GroupNames(sim) = TwoGroups /\ NoRigidStep(sim))

(* C9, amended: the MD job has the three groups and a rigid-body step for  *)
(* the rigid group when a molecule of a species flagged rigid is present   *)
(* in the system, and the two groups and no rigid-body step otherwise, in  *)
(* particular when no species is flagged rigid; for both job shapes.       *)
C9_ByPresence ==
  pc \in {"md_run", "md_post"} =>
    /\ RigidPresent => (GroupNames(sim) = ThreeGroups /\ HasRigidStep(sim))
    /\ ~RigidPresent => (GroupNames(sim) = TwoGroups /\ NoRigidStep(sim))
    /\ ~FlaggedRigid => ~RigidPresent

C9_Witness ==
  /\ pc = "md_run" /\ RigidPresent /\ md_props.staged
  /\ GroupNames(sim) = ThreeGroups /\ HasRigidStep(sim)


(* the conditions C3 names, on the arguments of the call *)
NoValidGas ==
  gas_sst.kind = "none" \/ \A i \in DOMAIN gas_sst.items : ~gas_sst.items[i].isSystem
NoMcProps == mc_props.kind \in {"none", "empty"}
NoChemPot == ~mc_props.hasChem \/ mc_props.chem = <<>>
NoMdProps == md_props.kind \in {"none", "empty"}

(* C3: when no valid gas species is supplied, or mc_props is missing or    *)
(* empty or has no non-empty Chemical_Potential_Info, or md_props is       *)
(* missing or empty, the call ends in exit(1) right after the set-up, no   *)
(* Monte-Carlo job has been constructed, no engine launched, and the loop  *)
(* has not been entered.                                                   *)
C3_ConfigAbort ==
  ((NoValidGas \/ NoMcProps \/ NoChemPot \/ NoMdProps)
    /\ pc \notin {"idle", "scan", "purge", "setup"}) =>
      /\ pc = "abort" /\ exit_code = 1
      /\ jobs = <<>> /\ run_queue = <<>> /\ launches = <<>>
      /\ sim = <<>> /\ md_phases = <<>>

C3_Witness ==
  /\ pc = "abort" /\ exit_code = 1
  /\ ~NoValidGas /\ ~NoMcProps /\ ~NoChemPot /\ NoMdProps

(* C8: after the set-up no type name of a gas equals a type name of a gas  *)
(* at another position of the list (so two gases that both hold 'C' get    *)
(* 'C_g1' and 'C_g2') nor a type name of the fixed framework.              *)
C8_NamesDistinct ==
  InLoop =>
    /\ \A i, j \in 1..Len(gases) :
         i # j => Range(gases[i].types) \cap Range(gases[j].types) = {}
    /\ fixed_sst.kind = "system" =>
         \A i \in 1..Len(gases) :
           Range(gases[i].types) \cap Range(fixed_sst.types) = {}

(* the part of C8 about the gases among themselves *)
GasNamesDistinct ==
  InLoop =>
    \A i, j \in 1..Len(gases) :
      i # j => Range(gases[i].types) \cap Range(gases[j].types) = {}

(* the j-th smallest element of a set of positions *)
Nth(S, j) == CHOOSE i \in S : Cardinality({x \in S : x <= i}) = j

StageRuns(job) == {i \in DOMAIN job : job[i].op = "run" /\ job[i].len # <<0>>}
VelocityCreates(job) ==
  {i \in DOMAIN job : job[i].op = "velocity" /\ job[i].name = "create"}

(* C10: with timestep [t_1..t_n] and length [L_1..L_n] the MD job has      *)
(* exactly n integration stages; the j-th follows the j-th velocity        *)
(* creation, which follows the run of stage j-1; its fixes use timestep    *)
(* t_j and its run has length L_j; the fixes defined for it are a main     *)
(* fix, a tether fix and, when the rigid group exists, a rigid fix, and    *)
(* each is removed after the run of the stage and before the next          *)
(* velocity creation.                                                      *)
C10_Stages ==
  ( /\ pc = "md_run" /\ md_props.staged
    /\ Len(md_props.timestep) = Len(md_props.length) ) =>
    LET n == Len(md_props.timestep)
        R == StageRuns(sim)
        V == VelocityCreates(sim)
    IN /\ Cardinality(R) = n
       /\ Cardinality(V) = n
       /\ \A j \in 1..n :
            LET r == Nth(R, j)
                v == Nth(V, j)
                last == IF j < n THEN Nth(V, j + 1) ELSE Len(sim) + 1
                fixes == {p \in v..r : sim[p].op = "fix"}
            IN /\ v < r
               /\ j > 1 => Nth(R, j - 1) < v
               /\ sim[r].len = <<md_props.length[j]>>
               /\ {sim[p].name : p \in fixes}
                    = {"main_fix", "tether_fix"}
                      \cup (IF rigid_mols # {} THEN {"rig_fix"} ELSE {})
               /\ \A p \in fixes :
                    /\ sim[p].name # "tether_fix" => sim[p].ts = md_props.timestep[j]
                    /\ \E q \in (r + 1)..(last - 1) :
                         /\ sim[q].op = "unfix"
                         /\ sim[q].name = sim[p].name
                         /\ sim[q].idx = sim[p].idx

C10_Witness ==
  /\ pc = "md_run" /\ md_props.staged /\ rigid_mols # {}
  /\ md_props.timestep = <<1, 2>> /\ md_props.length = <<10, 20>>
  /\ Cardinality(StageRuns(sim)) = 2


(* C11: a call that returns hands back a system exactly when the body of   *)
(* the loop ran at least once; when it never ran, because mcmd_niter is 0  *)
(* or because a restart resumes at an index above mcmd_niter, the call     *)
(* returns None and has launched no engine.                                *)
C11_ZeroIterations ==
  pc = "done" =>
    /\ (retval # NoSystem) <=> (jobs # <<>>)
    /\ (jobs # <<>>) <=> (md_phases # <<>>)
    /\ (n_iter = 0 \/ ScanIndex(restart, files0) > n_iter)
         => (jobs = <<>> /\ retval = NoSystem /\ launches = <<>>)
    /\ jobs # <<>> => retval = <<"md", n_iter>>

C11_Witness ==
  /\ pc = "done" /\ restart /\ n_iter = 1
  /\ ScanIndex(restart, files0) = 2
  /\ retval = NoSystem /\ launches = <<>>

NoPreMdFile(fs) == \A f \in fs : f[2] # LmpsKind

(* C12: a call with restart on a directory that holds no pre-MD file runs  *)
(* as a fresh call does: it gets past the Monte-Carlo phase of iteration 1 *)
(* only by launching the Monte-Carlo engine, it stops with an exception    *)
(* only after an engine was launched, and when it returns it has launched  *)
(* MC(1), MD(1), ..., MC(N), MD(N) and written the files of 1..N.          *)
C12_EmptyRestartIsFresh ==
  (restart /\ NoPreMdFile(files0) /\ n_iter >= 1) =>
    /\ pc \in {"md_build", "md_run", "md_post", "done"}
         => (launches # <<>> /\ launches[1] = <<"MC", 1>>)
    /\ pc = "crashed" => launches # <<>>
    /\ pc = "done" => /\ launches = Alternation(1, n_iter)
                      /\ written = (1..n_iter) \X FileKinds

Last(q) == q[Len(q)]

(* C13: within a call the engine invocations are MC(i), MD(i), MC(i+1),    *)
(* MD(i+1), ... with i going up by exactly 1, starting with MC(1) or, after *)
(* a restart, with MD of the resumed iteration; a Monte-Carlo phase runs   *)
(* one job; MD(i) starts only when MC(i) is over or the state of i was     *)
(* read back; MC(i+1) starts only when MD(i) is over and <i>.md_out.xyz is *)
(* written; no index is skipped or repeated.                               *)
C13_Sequencing ==
  /\ \A k \in 1..(Len(launches) - 1) :
       launches[k + 1] = IF launches[k][1] = "MC"
                         THEN <<"MD", launches[k][2]>>
                         ELSE <<"MC", launches[k][2] + 1>>
  /\ launches # <<>> =>
       launches[1] = IF restart THEN <<"MD", ScanIndex(restart, files0)>>
                     ELSE <<"MC", 1>>
  /\ Len(run_queue) <= 1
  /\ pc = "md_run" =>
       \/ css_system = <<"mc", l>> /\ launches # <<>> /\ Last(launches) = <<"MC", l>>
       \/ css_system = <<"chk", l>> /\ launches = <<>> /\ restart
  /\ \A k \in 1..Len(launches) :
       (launches[k][1] = "MC" /\ k > 1) =>
          /\ <<launches[k][2] - 1, XyzKind>> \in written
          /\ Len(md_phases) >= launches[k][2] - launches[1][2]
  /\ pc \in {"loop", "mc_build", "mc_phase"} =>
       (launches = <<>> \/ Last(launches) \in {<<"MD", l - 1>>, <<"MC", l>>})
  /\ (pc = "done" /\ launches # <<>>) => Last(launches) = <<"MD", n_iter>>

C13_Witness ==
  /\ pc = "md_post" /\ ~restart /\ l = 2
  /\ launches = << <<"MC", 1>>, <<"MD", 1>>, <<"MC", 2>>, <<"MD", 2>> >>

(* the largest i for which <i>.before_md.lmps is in fs *)
LastPreMd(fs) == SetMax({f[1] : f \in {h \in fs : h[2] = LmpsKind}})

(* the files of fs named <k+1>.* or <k>.md* *)
Doomed(fs, k) == {f \in fs : f[1] = k + 1 \/ (f[1] = k /\ f[2] \in MdStar)}

(* C15: with restart, k being the largest i whose <i>.before_md.lmps       *)
(* exists, the files deleted are files named <k+1>.* or <k>.md*, all of    *)
(* them are deleted before the first job is built, nothing of an iteration *)
(* below k and not <k>.before_md.lmps is deleted, nothing else of the      *)
(* directory changes, and the first Monte-Carlo job is built for k.        *)
C15_ScanPurge ==
  (restart /\ pc \notin {"idle", "scan"} /\ ~NoPreMdFile(files0)) =>
    LET k == LastPreMd(files0)
    IN /\ removed \subseteq Doomed(files0, k)
       /\ pc = "purge" => to_purge = Doomed(files0, k) \ removed
       /\ pc # "purge" => removed = Doomed(files0, k)
       /\ \A f \in removed : f[1] >= k /\ f # <<k, LmpsKind>>
       /\ jobs = <<>> => (files = files0 \ removed /\ l = k)
       /\ jobs # <<>> => jobs[1].run_name = k

C15_Witness ==
  /\ restart /\ pc = "mc_phase" /\ jobs # <<>> /\ jobs[1].run_name = 2
  /\ removed = {<<3, PropsKind>>, <<2, XyzKind>>, <<2, LogKind>>}
  /\ {<<2, LmpsKind>>, <<2, PropsKind>>, <<1, XyzKind>>} \subseteq files

Zeros(n) == [k \in 1..n |-> 0]

(* C16: the first Monte-Carlo job of a call without restart starts from    *)
(* the composition [1, 0, ..., 0], a 1 for the framework and a 0 for each  *)
(* gas species; the job of iteration i+1 starts from [1] followed by the   *)
(* insertion totals the job of iteration i reported, and takes its start   *)
(* coordinates from <i>.md_out.xyz.                                        *)
C16_StartComposition ==
  /\ (~restart /\ jobs # <<>>) =>
       /\ jobs[1].start_type.species = <<1>> \o Zeros(Len(gases))
       /\ jobs[1].start_type.file_name = NoFile
  /\ \A j \in 2..Len(jobs) :
       /\ jobs[j].start_type.file_name = jobs[j - 1].run_name
       /\ jobs[j].run_name = jobs[j - 1].run_name + 1
       /\ <<jobs[j - 1].run_name, XyzKind>> \in files
  /\ (pc = "mc_phase" /\ Len(jobs) >= 2) =>
       Last(jobs).start_type.species = <<1>> \o made_ins

(* the part of C16 about the hand-off from one iteration to the next *)
StartHandOff ==
  /\ \A j \in 2..Len(jobs) :
       /\ jobs[j].start_type.file_name = jobs[j - 1].run_name
       /\ jobs[j].run_name = jobs[j - 1].run_name + 1
       /\ <<jobs[j - 1].run_name, XyzKind>> \in files
  /\ (pc = "mc_phase" /\ Len(jobs) >= 2) =>
       Last(jobs).start_type.species = <<1>> \o made_ins

(* C18: when a call ends in a fatal configuration error, with or without   *)
(* restart, it has deleted and created no file of sim_folder.              *)
C18_AbortLeavesDir ==
  pc = "abort" => (files = files0 /\ removed = {} /\ written = {})

(* the part of C18 about calls without restart *)
FreshAbortLeavesDir ==
  (pc = "abort" /\ ~restart) => (files = files0 /\ removed = {} /\ written = {})

(* the name of a fix as LAMMPS sees it: 'main_fix_0', 'tether_fix', ... *)
FixId(c) == <<c.name, c.idx>>

UnfixesBetween(job, id, p, q) ==
  {r \in (p + 1)..(q - 1) : job[r].op = "unfix" /\ FixId(job[r]) = id}

WellFormedJob(job) ==
  /\ \A q \in DOMAIN job :
       job[q].op = "unfix" =>
         \E p \in 1..(q - 1) :
           /\ job[p].op = "fix" /\ FixId(job[p]) = FixId(job[q])
           /\ UnfixesBetween(job, FixId(job[q]), p, q) = {}
  /\ \A p, q \in DOMAIN job :
       (p < q /\ job[p].op = "fix" /\ job[q].op = "fix"
          /\ FixId(job[p]) = FixId(job[q]))
         => UnfixesBetween(job, FixId(job[p]), p, q) # {}

(* C19: in every MD job, of either shape, with or without rigid molecules, *)
(* each unfix names a fix defined earlier in the job and not yet removed,  *)
(* and no fix is defined again while it is active.                         *)
C19_WellFormedJob ==
  pc = "md_run" => WellFormedJob(sim)

(* the part of C19 that holds: single-stage jobs and jobs with rigid       *)
(* molecules                                                               *)
WellFormedUnlessStagedNonRigid ==
  (pc = "md_run" /\ (~md_props.staged \/ rigid_mols # {})) => WellFormedJob(sim)

(* the iterations with a pre-MD file and no post-MD file *)
OpenIterations(fs) ==
  {f[1] : f \in {h \in fs : h[2] = LmpsKind /\ <<h[1], XyzKind>> \notin fs}}

(* C20: from an empty sim_folder on, through calls that return, fail or    *)
(* are stopped at any step and calls that continue them with restart, at   *)
(* every moment: if <i>.md_out.xyz exists then <i>.before_md.lmps exists   *)
(* and both files exist for every j < i, and at most one iteration has a   *)
(* pre-MD file without a post-MD file.                                     *)
C20_DirInvariant ==
  /\ \A f \in files :
       f[2] = XyzKind =>
         /\ <<f[1], LmpsKind>> \in files
         /\ \A j \in 1..(f[1] - 1) :
              <<j, LmpsKind>> \in files /\ <<j, XyzKind>> \in files
  /\ Cardinality(OpenIterations(files)) <= 1

C20_Witness ==
  /\ restart /\ pc = "md_build" /\ l = 2
  /\ <<2, XyzKind>> \in removed
  /\ {<<1, LmpsKind>>, <<1, XyzKind>>, <<2, LmpsKind>>} \subseteq files
  /\ OpenIterations(files) = {2}

(* C21: when a call with restart returns, every post-MD file               *)
(* <k>.md_out.xyz that its restart purge deleted has been written again,   *)
(* whatever mcmd_niter is, also when the resume index is mcmd_niter or     *)
(* above it.                                                               *)
C21_RestartKeepsResults ==
  (restart /\ pc = "done") =>
    \A f \in removed : f[2] = XyzKind => (f \in written /\ f \in files)

(* the part of C21 that holds: the resume index is at most mcmd_niter *)
RestartKeepsResultsInRange ==
  (restart /\ pc = "done" /\ ScanIndex(restart, files0) <= n_iter) =>
    \A f \in removed : f[2] = XyzKind => (f \in written /\ f \in files)

(* ---------------------------------------------------------------------- *)
(* Properties of get_forcefield_types                                       *)
(* ---------------------------------------------------------------------- *)
(* the name of the record particle t is bound to, "" when it is unbound *)
BoundName(t) ==
  IF ff_st.particle_type[t] = 0 THEN ""
  ELSE ff_st.s_particle_types[ff_st.particle_type[t]]

(* C5: under scheme 'gaff2', with a fallback that holds 'c3' and not 'c6'  *)
(* and a system that does not hold 'c6', once every line is read each      *)
(* particle reported as 'c6' is bound to a record named 'c3', and when     *)
(* all the particles are 'c6' exactly one warning was emitted, however     *)
(* many they are.                                                          *)
C5_AliasBinding ==
  ( /\ ff_pc = "done" /\ ff_types = "gaff2" /\ ff_f.present
    /\ "c3" \in ff_f.names /\ "c6" \notin ff_f.names
    /\ "c6" \notin Range(ff_reg0) ) =>
    /\ \A t \in DOMAIN ff_lines : ff_lines[t] = "c6" => BoundName(t) = "c3"
    /\ (ff_lines # <<>> /\ \A t \in DOMAIN ff_lines : ff_lines[t] = "c6")
         => Len(ff_st.warnings) = 1

(* C6: with a fallback, when some reported type name is in neither the     *)
(* system's registry nor the fallback, Missing_Types.pdb has been written  *)
(* exactly once when every line is read.                                   *)
C6_SnapshotOnce ==
  ( /\ ff_pc = "done" /\ ff_f.present
    /\ \E t \in DOMAIN ff_lines :
         ff_lines[t] \notin Range(ff_reg0) /\ ff_lines[t] \notin ff_f.names ) =>
    ff_st.pdb_writes = 1

(* C14: without a fallback force field, each line whose type name is not  *)
(* in the registry of the system reports one error naming that type, in    *)
(* the order of the lines, and leaves its particle as it was; the loop     *)
(* goes on, so every particle whose type the system holds, also after an   *)
(* unresolved one, is bound to it; the registry does not change.           *)
C14_NoFallback ==
  ~ff_f.present =>
    LET seen == 1..(ff_next - 1)
    IN /\ ff_st.errors
            = SelectSeq(SubSeq(ff_lines, 1, ff_next - 1),
                        LAMBDA n : n \notin Range(ff_reg0))
       /\ \A t \in seen :
            IF ff_lines[t] \in Range(ff_reg0)
            THEN BoundName(t) = ff_lines[t]
            ELSE ff_st.particle_type[t] = 0
       /\ ff_st.s_particle_types = ff_reg0
       /\ ff_pc = "done" <=> ff_next > Len(ff_lines)

C14_Witness ==
  /\ ff_pc = "done" /\ ~ff_f.present
  /\ ff_lines = <<"c6", "c3", "hx">> /\ ff_reg0 = <<"c3">>
  /\ ff_st.errors = <<"c6", "hx">> /\ BoundName(2) = "c3"

AliasWarned == \E w \in Range(ff_st.warnings) : w[1] = "alias"

(* C17: under scheme 'gaff2' the alias is used, and the alias warning      *)
(* emitted, only for a 'c5' or 'c6' that neither the system nor the        *)
(* fallback holds; a particle reported as 'c5' or 'c6' whose name the      *)
(* fallback holds is bound to a record of that same name.                  *)
C17_AliasOnlyUnresolved ==
  (ff_pc = "done" /\ ff_types = "gaff2" /\ ff_f.present) =>
    /\ AliasWarned =>
         \E t \in DOMAIN ff_lines :
           /\ ff_lines[t] \in {"c5", "c6"}
           /\ ff_lines[t] \notin Range(ff_reg0)
           /\ ff_lines[t] \notin ff_f.names
    /\ \A t \in DOMAIN ff_lines :
         (ff_lines[t] \in {"c5", "c6"} /\ ff_lines[t] \in ff_f.names)
           => BoundName(t) = ff_lines[t]

(* C22: after a call with a fallback force field, whatever the order of    *)
(* the reported types, the registry of the system holds at most one record *)
(* of each name, also of 'c3' when the alias is used and 'c3' is           *)
(* registered, and particles resolved to the same name are bound to the    *)
(* same record.                                                            *)
C22_NoDuplicateRecords ==
  (ff_pc = "done" /\ ff_f.present) =>
    /\ \A i, j \in DOMAIN ff_st.s_particle_types :
         ff_st.s_particle_types[i] = ff_st.s_particle_types[j] => i = j
    /\ \A t, u \in DOMAIN ff_lines :
         (BoundName(t) # "" /\ BoundName(t) = BoundName(u))
           => ff_st.particle_type[t] = ff_st.particle_type[u]

(* the part of C22 that holds: no line takes the alias branch *)
NoDuplicateWithoutAlias ==
  ( /\ ff_pc = "done" /\ ff_f.present
    /\ \A t \in DOMAIN ff_lines : ~IsAlias(ff_types, ff_lines[t]) ) =>
    /\ \A i, j \in DOMAIN ff_st.s_particle_types :
         ff_st.s_particle_types[i] = ff_st.s_particle_types[j] => i = j
    /\ \A t, u \in DOMAIN ff_lines :
         (BoundName(t) # "" /\ BoundName(t) = BoundName(u))
           => ff_st.particle_type[t] = ff_st.particle_type[u]

====
